---- MODULE Spec2Model ----
(***************************************************************************)
(* Model of autogoal/search/_pge.py: the ModelSampler (adaptive sampler),  *)
(* update_model (model updater) and PESearch (generation driver and        *)
(* rank-based selector).                                                   *)
(*                                                                         *)
(* Python dicts are functions over a finite set of keys, Python objects    *)
(* that are shared by reference (the model dicts) live in the heap         *)
(* `models` and are named by their identifier.  Numbers are exact          *)
(* rationals <<n, d>> with d > 0 in lowest terms.  Python lists are        *)
(* sequences; list positions and ranks are the 0-based Python values.      *)
(***************************************************************************)
EXTENDS Integers, Sequences, FiniteSets, TLC

VARIABLES
    pop_size,         \* PESearch._pop_size
    learning_factor,  \* PESearch._learning_factor (alpha)
    selection,        \* PESearch._selection
    maximize,         \* SearchAlgorithm._maximize, read by _finish_generation
    random_state,     \* the random_state argument of PESearch.__init__
    grammar,          \* SearchAlgorithm._grammar: the sampler operation it calls, with
                      \* the bounds it declares for a bounded draw
    models,           \* heap of model dicts: identifier -> (handle -> params)
    self_model,       \* PESearch._model: identifier of the driver's current dict
    samplers,         \* PESearch._samplers: sequence of [model, updates, seed]
    gen,              \* number of generations finished
    pc,               \* "idle" | "sampling" | "crashed"
    fns,              \* argument of the last _finish_generation
    selected,         \* local `selected` of the last _finish_generation (0-based indices)
    err,              \* exception that ended the run, "none" otherwise
    ops,              \* sampling operations performed so far in the run
    last              \* the last sampler call: operation, handle, gaussian sample,
                      \* value returned ("none" outside a candidate's construction)

vars == <<pop_size, learning_factor, selection, maximize, random_state, grammar, models,
          self_model, samplers, gen, pc, fns, selected, err, ops, last>>

----------------------------------------------------------------------------
(* Bounds of the model *)

\* generations run by the outer driver
MaxGen == 2
\* sampling operations the grammar performs in one run
MaxOps == 2

----------------------------------------------------------------------------
(* Exact rational arithmetic standing in for Python's numbers *)

Abs(n) == IF n < 0 THEN -n ELSE n

RECURSIVE GCD(_, _)
GCD(a, b) == IF b = 0 THEN a ELSE GCD(b, a % b)

Norm(n, d) ==
    LET s == IF d < 0 THEN -1 ELSE 1
        g == GCD(Abs(n), Abs(d))
    IN  <<(s * n) \div g, (s * d) \div g>>

R(n) == <<n, 1>>
RAdd(p, q) == Norm(p[1] * q[2] + q[1] * p[2], p[2] * q[2])
RSub(p, q) == Norm(p[1] * q[2] - q[1] * p[2], p[2] * q[2])
RMul(p, q) == Norm(p[1] * q[1], p[2] * q[2])
RDivInt(p, k) == Norm(p[1], p[2] * k)
RLt(p, q) == p[1] * q[2] < q[1] * p[2]
RLe(p, q) == p[1] * q[2] <= q[1] * p[2]

\* int(x): truncation toward zero
int(q) == IF q[1] >= 0 THEN q[1] \div q[2] ELSE -((-q[1]) \div q[2])

\* floor(x)
Floor(q) == q[1] \div q[2]

\* round(x): nearest integer, a tie going to the even neighbour
Nearest(q) ==
    LET f == Floor(q)
        twice == RSub(RMul(R(2), q), R(2 * f))   \* 2 * (q - f), in [0, 2)
    IN  IF RLt(twice, R(1)) THEN f
        ELSE IF RLt(R(1), twice) THEN f + 1
        ELSE IF f % 2 = 0 THEN f ELSE f + 1

ISqrt(n) == CHOOSE r \in 0..n : r * r <= n /\ (r + 1) * (r + 1) > n

IsSquare(n) == ISqrt(n) * ISqrt(n) = n

\* square root of a rational >= 0: exact when it is rational, otherwise
\* rounded down to a multiple of 1/(16 d)
RSqrt(q) ==
    IF IsSquare(q[1]) /\ IsSquare(q[2])
    THEN Norm(ISqrt(q[1]), ISqrt(q[2]))
    ELSE Norm(ISqrt(q[1] * q[2] * 256), q[2] * 16)

RECURSIVE RSum(_)
RSum(s) == IF s = <<>> THEN R(0) ELSE RAdd(Head(s), RSum(Tail(s)))

RECURSIVE ISum(_)
ISum(s) == IF s = <<>> THEN 0 ELSE Head(s) + ISum(Tail(s))

\* variant: the sum of the outcomes, not divided by their number
mean_sum(s) == RSum(s)

\* scipy.mean
mean(s) == RDivInt(RSum(s), Len(s))

\* variant: the sample standard deviation, divisor n - 1
std_ddof1(s) ==
    LET m == mean(s)
        sq == [i \in 1..Len(s) |-> RMul(RSub(s[i], m), RSub(s[i], m))]
    IN  IF Len(s) = 1 THEN R(0) ELSE RSqrt(RDivInt(RSum(sq), Len(s) - 1))

\* scipy.std (population standard deviation, divisor n)
std(s) ==
    LET m == mean(s)
        sq == [i \in 1..Len(s) |-> RMul(RSub(s[i], m), RSub(s[i], m))]
    IN  RSqrt(mean(sq))

----------------------------------------------------------------------------
(* Parameters: the Python value stored under a handle *)

Scalar(q) == [kind |-> "num", items |-> <<q>>]
List(qs) == [kind |-> "list", items |-> qs]
Tuple(qs) == [kind |-> "tuple", items |-> qs]

EmptyDict == <<>>

Put(d, k, v) == [x \in (DOMAIN d) \cup {k} |-> IF x = k THEN v ELSE d[x]]

----------------------------------------------------------------------------
(* The grammars (external collaborator): the decision point each one has *)

G(op, min, max) == [op |-> op, min |-> min, max |-> max]

Grammars ==
    {G("choice", 0, 0), G("categorical", 0, 0), G("boolean", 0, 0),
     G("discrete", 0, 3), G("discrete", -2, 1), G("continuous", 0, 2)}

ChoiceOptions == <<"a", "b">>
CategoricalHandle == "c"
CategoricalOptions == <<"u", "v">>
DiscreteHandle == "d"
ContinuousHandle == "x"
BooleanHandle == "p"

NoCall == [op |-> "none", handle |-> "", g |-> <<0, 1>>, ret |-> <<0, 1>>]
Call(op, handle, g, ret) == [op |-> op, handle |-> handle, g |-> g, ret |-> ret]

\* standard normal deviates rand.gauss may draw: gauss(mu, sigma) = mu + z * sigma
ZSet == {<<-1, 1>>, <<0, 1>>, <<1, 1>>}

\* the grammar of a draw over [0, 10], and the deviates drawn for it
FineGrammars == {G("discrete", 0, 10)}
FineZSet == {<<-1, 10>>, <<1, 10>>}

Deviates == IF grammar \in FineGrammars THEN FineZSet ELSE ZSet

None == "None"

----------------------------------------------------------------------------
(* Sampler (base class of ModelSampler) *)

\* what self.rand, a Random(random_state), can return where an unseeded
\* generator can return any element of S: a seeded one returns one value,
\* determined by the seed and the calls made so far
rand_stream(seed, S) ==
    IF seed = None \/ S = {} THEN S ELSE {CHOOSE x \in S : TRUE}

----------------------------------------------------------------------------
(* ModelSampler *)

\* the random_state a sampler created by _run_one_generation is given:
\* ModelSampler(self._model) passes none, whatever PESearch was given
sampler_seed(rs) == None

\* variant: every sampler starts from a dict of its own
sampler_model_always_fresh(model) == TRUE

\* ModelSampler.__init__: `model or {}` is a fresh dict when model is empty
sampler_model_is_fresh(model) == model = EmptyDict

\* the value _get_model_params returns
get_model_params(model, handle, default) ==
    IF handle \in DOMAIN model THEN model[handle] ELSE default

\* the sampler's model dict after _get_model_params
model_after_get(model, handle, default) ==
    IF handle \in DOMAIN model THEN model ELSE Put(model, handle, default)

\* variant: the handle's sequence is replaced by the new outcome alone
register_update_overwrite(updates, handle, result) == Put(updates, handle, <<result>>)

\* the sampler's update log after _register_update
register_update(updates, handle, result) ==
    LET old == IF handle \in DOMAIN updates THEN updates[handle] ELSE <<>>
    IN  Put(updates, handle, Append(old, result))

\* variant: the upper bound is not enforced
clamp_no_upper(x, a, b) == IF RLt(x, a) THEN a ELSE x

clamp(x, a, b) ==
    IF RLt(x, a) THEN a
    ELSE IF RLt(b, x) THEN b
    ELSE x

\* rand.gauss(mean, stdev) for the deviate z
gauss(mu, sigma, z) == RAdd(mu, RMul(z, sigma))

\* default GaussianParams of a bounded draw
gauss_default(min, max) ==
    Tuple(<<RDivInt(R(min + max), 2), R(max - min)>>)

\* variant: math.floor in place of int
discrete_value_floor(g, min, max) == clamp(R(Floor(g)), R(min), R(max))

\* value computed by _sample_discrete from the gaussian sample g
discrete_value(g, min, max) == clamp(R(int(g)), R(min), R(max))

\* value computed by _sample_continuous from the gaussian sample g
continuous_value(g, min, max) == clamp(g, R(min), R(max))

\* rand.uniform(0, 1) < p for some u in [0, 1)
boolean_value_possible(p, value) ==
    IF value THEN RLt(R(0), p) ELSE RLt(p, R(1))

\* rand.choices(range(n), weights): an index of positive weight
choices_possible(weights, idx) == RLt(R(0), weights[idx + 1])

\* models after [self._get_model_params(option, 1) for option in options]
RECURSIVE model_after_weights(_, _)
model_after_weights(model, options) ==
    IF options = <<>> THEN model
    ELSE model_after_weights(
             model_after_get(model, Head(options), Scalar(R(1))), Tail(options))

Cur == Len(samplers)

CanDraw(kind) ==
    /\ pc = "sampling"
    /\ grammar.op = kind
    /\ Cur >= 1
    /\ ops < MaxOps

\* effect of one sampling call on the sampler being built
Drawn(newModel, newUpdates, call) ==
    /\ last' = call
    /\ models' = [models EXCEPT ![samplers[Cur].model] = newModel]
    /\ samplers' = [samplers EXCEPT ![Cur].updates = newUpdates]
    /\ ops' = ops + 1
    /\ UNCHANGED <<pop_size, learning_factor, selection, maximize, random_state, grammar,
                   self_model, gen, pc, fns, selected, err>>

\* ModelSampler.choice(options) with handle None
choice ==
    /\ CanDraw("choice")
    /\ LET s == samplers[Cur]
           m == model_after_weights(models[s.model], ChoiceOptions)
           weights == [i \in 1..Len(ChoiceOptions) |-> m[ChoiceOptions[i]].items[1]]
       IN  \E idx \in 0..(Len(ChoiceOptions) - 1) :
               /\ choices_possible(weights, idx)
               /\ idx \in rand_stream(s.seed, {i \in 0..(Len(ChoiceOptions) - 1) :
                                                    choices_possible(weights, i)})
               /\ Drawn(m, register_update(s.updates, ChoiceOptions[idx + 1], 1),
                        Call("choice", ChoiceOptions[idx + 1], R(0),
                             ChoiceOptions[idx + 1]))

\* ModelSampler._sample_categorical(handle, options), also choice(options, handle)
sample_categorical ==
    /\ CanDraw("categorical")
    /\ LET s == samplers[Cur]
           default == List([i \in 1..Len(CategoricalOptions) |-> R(1)])
           weights == get_model_params(models[s.model], CategoricalHandle, default)
           m == model_after_get(models[s.model], CategoricalHandle, default)
       IN  \E idx \in 0..(Len(CategoricalOptions) - 1) :
               /\ choices_possible(weights.items, idx)
               /\ idx \in rand_stream(s.seed, {i \in 0..(Len(CategoricalOptions) - 1) :
                                                    choices_possible(weights.items, i)})
               /\ Drawn(m, register_update(s.updates, CategoricalHandle, idx),
                        Call("categorical", CategoricalHandle, R(0),
                             CategoricalOptions[idx + 1]))

\* ModelSampler._sample_discrete(handle, min, max)
sample_discrete ==
    /\ CanDraw("discrete")
    /\ \E z \in rand_stream(samplers[Cur].seed, Deviates) :
         LET s == samplers[Cur]
             b == <<grammar.min, grammar.max>>
             default == gauss_default(b[1], b[2])
             params == get_model_params(models[s.model], DiscreteHandle, default)
             m == model_after_get(models[s.model], DiscreteHandle, default)
             g == gauss(params.items[1], params.items[2], z)
             value == discrete_value(g, b[1], b[2])
         IN  Drawn(m, register_update(s.updates, DiscreteHandle, value),
                   Call("discrete", DiscreteHandle, g, value))

\* ModelSampler._sample_continuous(handle, min, max)
sample_continuous ==
    /\ CanDraw("continuous")
    /\ \E z \in rand_stream(samplers[Cur].seed, Deviates) :
         LET s == samplers[Cur]
             b == <<grammar.min, grammar.max>>
             default == gauss_default(b[1], b[2])
             params == get_model_params(models[s.model], ContinuousHandle, default)
             m == model_after_get(models[s.model], ContinuousHandle, default)
             g == gauss(params.items[1], params.items[2], z)
             value == continuous_value(g, b[1], b[2])
         IN  Drawn(m, register_update(s.updates, ContinuousHandle, value),
                   Call("continuous", ContinuousHandle, g, value))

\* ModelSampler._sample_boolean(handle)
sample_boolean ==
    /\ CanDraw("boolean")
    /\ LET s == samplers[Cur]
           default == Tuple(<<<<1, 2>>>>)
           p == get_model_params(models[s.model], BooleanHandle, default).items[1]
           m == model_after_get(models[s.model], BooleanHandle, default)
       IN  \E value \in BOOLEAN :
               /\ boolean_value_possible(p, value)
               /\ value \in rand_stream(s.seed, {v \in BOOLEAN :
                                                      boolean_value_possible(p, v)})
               /\ Drawn(m, register_update(s.updates, BooleanHandle, value),
                        Call("boolean", BooleanHandle, R(0), value))

----------------------------------------------------------------------------
(* update_model *)

\* variant: `= alpha` in place of `+= alpha`
RECURSIVE list_add_assign(_, _, _)
list_add_assign(items, upd, alpha) ==
    IF upd = <<>> THEN items
    ELSE list_add_assign([items EXCEPT ![Head(upd) + 1] = alpha], Tail(upd), alpha)

\* for i in upd: new_model[handle][i] += alpha
RECURSIVE list_add(_, _, _)
list_add(items, upd, alpha) ==
    IF upd = <<>> THEN items
    ELSE list_add([items EXCEPT ![Head(upd) + 1] = RAdd(@, alpha)], Tail(upd), alpha)

\* upd.count(True)
count_true(upd) == Cardinality({i \in 1..Len(upd) : upd[i] = TRUE})

\* variant: only the outer else raises, a tuple of any length is accepted
unrecognized_kind_only(params) == params.kind \notin {"num", "list", "tuple"}

\* the branches of update_model that raise ValueError
unrecognized(params) ==
    \/ params.kind \notin {"num", "list", "tuple"}
    \/ params.kind = "tuple" /\ Len(params.items) \notin {1, 2}

\* variant: the 1-tuple branch stores the bare number (no trailing comma)
update_params_untupled(params, upd, alpha) ==
    IF params.kind = "num"
    THEN Scalar(RAdd(params.items[1], RMul(alpha, R(ISum(upd)))))
    ELSE IF params.kind = "list"
    THEN List(list_add(params.items, upd, alpha))
    ELSE IF Len(params.items) = 2
    THEN Tuple(<<RAdd(RMul(params.items[1], RSub(R(1), alpha)), RMul(mean(upd), alpha)),
                 RAdd(RMul(params.items[2], RSub(R(1), alpha)), RMul(std(upd), alpha))>>)
    ELSE Scalar(RAdd(RMul(params.items[1], RSub(R(1), alpha)),
                     RMul(R(count_true(upd)), alpha)))

\* variant: the 1-tuple branch adds to p without scaling it by (1 - alpha)
update_params_no_decay(params, upd, alpha) ==
    IF params.kind = "num"
    THEN Scalar(RAdd(params.items[1], RMul(alpha, R(ISum(upd)))))
    ELSE IF params.kind = "list"
    THEN List(list_add(params.items, upd, alpha))
    ELSE IF Len(params.items) = 2
    THEN Tuple(<<RAdd(RMul(params.items[1], RSub(R(1), alpha)), RMul(mean(upd), alpha)),
                 RAdd(RMul(params.items[2], RSub(R(1), alpha)), RMul(std(upd), alpha))>>)
    ELSE Tuple(<<RAdd(params.items[1], RMul(R(count_true(upd)), alpha))>>)

\* the new parameter of a handle that has recorded outcomes upd
update_params(params, upd, alpha) ==
    IF params.kind = "num"
    THEN Scalar(RAdd(params.items[1], RMul(alpha, R(ISum(upd)))))
    ELSE IF params.kind = "list"
    THEN List(list_add(params.items, upd, alpha))
    ELSE IF Len(params.items) = 2
    THEN Tuple(<<RAdd(RMul(params.items[1], RSub(R(1), alpha)), RMul(mean(upd), alpha)),
                 RAdd(RMul(params.items[2], RSub(R(1), alpha)), RMul(std(upd), alpha))>>)
    ELSE Tuple(<<RAdd(RMul(params.items[1], RSub(R(1), alpha)),
                      RMul(R(count_true(upd)), alpha))>>)

\* variant: a handle without recorded outcomes is not copied
update_model_only_touched(model, updates, alpha) ==
    [handle \in (DOMAIN model) \cap (DOMAIN updates) |->
        update_params(model[handle], updates[handle], alpha)]

\* update_model(model, updates, alpha) when it returns
update_model(model, updates, alpha) ==
    [handle \in DOMAIN model |->
        IF handle \notin DOMAIN updates
        THEN model[handle]
        ELSE update_params(model[handle], updates[handle], alpha)]

\* variant: `new_model[handle] = params` without list(): `+= alpha` then
\* writes into the list the base holds
update_model_base_aliased(model, updates, alpha) ==
    [handle \in DOMAIN model |->
        IF handle \in DOMAIN updates /\ model[handle].kind = "list"
        THEN List(list_add(model[handle].items, updates[handle], alpha))
        ELSE model[handle]]

\* the dict passed as `model`, as it is when update_model returns: every
\* assignment goes to new_model, and `+= alpha` to the copy list(params)
update_model_base(model, updates, alpha) == model

\* update_model(model, updates, alpha) raises ValueError
update_model_raises(model, updates) ==
    \E handle \in (DOMAIN model) \cap (DOMAIN updates) : unrecognized(model[handle])

----------------------------------------------------------------------------
(* PESearch *)

\* sorted() is stable: index i goes after every index whose key is <= its own
RECURSIVE insert_sorted(_, _, _)
insert_sorted(s, i, l) ==
    IF s = <<>> THEN <<i>>
    ELSE IF l[i + 1] < l[Head(s) + 1] THEN <<i>> \o s
    ELSE <<Head(s)>> \o insert_sorted(Tail(s), i, l)

RECURSIVE sorted_prefix(_, _)
sorted_prefix(l, k) ==
    IF k = 0 THEN <<>> ELSE insert_sorted(sorted_prefix(l, k - 1), k - 1, l)

\* argsort(l) = sorted(range(len(l)), key=l.__getitem__)
argsort(l) == sorted_prefix(l, Len(l))

\* variant: one argsort, the sorting order in place of the ranks
indices_single_argsort(l) == argsort(l)

\* PESearch._indices
indices(l) == argsort(argsort(l))

\* variant: no fallback to the whole population
to_select_no_fallback(sel, n) == int(RMul(sel, R(n)))

\* to_select after lines 162-165
to_select(sel, n) ==
    LET k == int(RMul(sel, R(n)))
    IN  IF k = 0 THEN n ELSE k

\* variant: strict comparison of the rank when maximizing
select_strict(f, sel, max) ==
    LET n == Len(f)
        ind == indices(f)
        k == to_select(sel, n)
        range == [i \in 1..n |-> i - 1]
    IN  IF max
        THEN SelectSeq(range, LAMBDA i : ind[i + 1] > n - k)
        ELSE SelectSeq(range, LAMBDA i : ind[i + 1] < k)

\* the 0-based positions of the samplers in `selected` (lines 167-171)
select(f, sel, max) ==
    LET n == Len(f)
        ind == indices(f)
        k == to_select(sel, n)
        range == [i \in 1..n |-> i - 1]
    IN  IF max
        THEN SelectSeq(range, LAMBDA i : ind[i + 1] >= n - k)
        ELSE SelectSeq(range, LAMBDA i : ind[i + 1] < k)

\* for sampler in selected: model = update_model(model, sampler.updates, alpha)
RECURSIVE fold(_, _, _, _)
fold(model, sel, smp, alpha) ==
    IF sel = <<>> THEN model
    ELSE fold(update_model(model, smp[Head(sel) + 1].updates, alpha),
              Tail(sel), smp, alpha)

RECURSIVE fold_raises(_, _, _, _)
fold_raises(model, sel, smp, alpha) ==
    IF sel = <<>> THEN FALSE
    ELSE \/ update_model_raises(model, smp[Head(sel) + 1].updates)
         \/ fold_raises(update_model(model, smp[Head(sel) + 1].updates, alpha),
                        Tail(sel), smp, alpha)

FreshId == Cardinality(DOMAIN models)

\* one step of the generator _run_one_generation: the sampler of the next
\* population slot is created (the first step of a generation empties
\* self._samplers, which frees every dict but the driver's)
run_one_generation ==
    /\ \/ pc = "idle" /\ gen < MaxGen
       \/ pc = "sampling" /\ Len(samplers) < pop_size
    /\ LET live == IF pc = "idle" THEN (0 :> models[self_model]) ELSE models
           me == IF pc = "idle" THEN 0 ELSE self_model
           old == IF pc = "idle" THEN <<>> ELSE samplers
           fresh == sampler_model_is_fresh(live[me])
           id == IF fresh THEN Cardinality(DOMAIN live) ELSE me
       IN  /\ models' = IF fresh THEN (id :> EmptyDict) @@ live ELSE live
           /\ self_model' = me
           /\ samplers' = Append(old, [model |-> id, updates |-> EmptyDict,
                                       seed |-> sampler_seed(random_state)])
    /\ pc' = "sampling"
    /\ fns' = IF pc = "idle" THEN <<>> ELSE fns
    /\ selected' = IF pc = "idle" THEN <<>> ELSE selected
    /\ last' = NoCall
    /\ UNCHANGED <<pop_size, learning_factor, selection, maximize, random_state, grammar,
                   gen, err, ops>>

\* PESearch._finish_generation(fns), one score per sampler
finish_generation(f) ==
    /\ pc = "sampling"
    /\ Len(samplers) = pop_size
    /\ Len(f) = Len(samplers)
    /\   LET sel == select(f, selection, maximize)
         IN  /\ fns' = f
             /\ selected' = sel
             /\ IF sel = <<>>
                THEN /\ err' = "IndexError"
                     /\ pc' = "crashed"
                     /\ UNCHANGED <<models, self_model, gen>>
                ELSE LET base == models[samplers[sel[1] + 1].model]
                     IN  IF fold_raises(base, sel, samplers, learning_factor)
                         THEN /\ err' = "ValueError"
                              /\ pc' = "crashed"
                              /\ UNCHANGED <<models, self_model, gen>>
                         ELSE /\ models' =
                                   (FreshId :> fold(base, sel, samplers, learning_factor))
                                   @@ [models EXCEPT ![samplers[sel[1] + 1].model] =
                                           update_model_base(base,
                                               samplers[sel[1] + 1].updates,
                                               learning_factor)]
                              /\ self_model' = FreshId
                              /\ gen' = gen + 1
                              /\ pc' = "idle"
                              /\ err' = "none"
    /\ last' = NoCall
    /\ UNCHANGED <<pop_size, learning_factor, selection, maximize, random_state, grammar,
                   samplers, ops>>

----------------------------------------------------------------------------
(* Specification: the driver run with a one-decision grammar *)

PopSizes == {2}
FitnessValues == {1, 2}
LearningFactors == {<<1, 2>>, <<1, 1>>}
\* (selection, maximize)
Directions == {<<<<1, 2>>, TRUE>>, <<<<1, 4>>, FALSE>>}

InitState ==
    /\ models = (0 :> EmptyDict)
    /\ self_model = 0
    /\ samplers = <<>>
    /\ gen = 0
    /\ pc = "idle"
    /\ fns = <<>>
    /\ selected = <<>>
    /\ err = "none"
    /\ ops = 0
    /\ last = NoCall

Init ==
    /\ random_state = None
    /\ pop_size \in PopSizes
    /\ learning_factor \in LearningFactors
    /\ \E c \in Directions : selection = c[1] /\ maximize = c[2]
    /\ grammar \in Grammars
    /\ InitState

Next ==
    \/ run_one_generation
    \/ choice
    \/ sample_categorical
    \/ sample_discrete
    \/ sample_continuous
    \/ sample_boolean
    \/ \E f \in [1..pop_size -> FitnessValues] : finish_generation(f)

Spec == Init /\ [][Next]_vars

----------------------------------------------------------------------------
(* Specification of the selector: the driver run with a grammar that takes *)
(* no sampling decision, over every population size, selection fraction    *)
(* and direction                                                           *)

SelPopSizes == 1..5
SelFitnessValues == {1, 3, 4, 5}
SelSelections ==
    {<<-1, 2>>, <<-1, 10>>, <<0, 1>>, <<1, 10>>, <<2, 5>>, <<1, 2>>, <<1, 1>>, <<3, 2>>}

InitSel ==
    /\ random_state = None
    /\ pop_size \in SelPopSizes
    /\ learning_factor = <<1, 2>>
    /\ selection \in SelSelections
    /\ maximize \in BOOLEAN
    /\ grammar = G("none", 0, 0)
    /\ InitState

NextSel ==
    \/ run_one_generation
    \/ \E f \in [1..pop_size -> SelFitnessValues] : finish_generation(f)

SpecSel == InitSel /\ [][NextSel]_vars

----------------------------------------------------------------------------
(* Specification of a seeded search: PESearch(random_state = seed) *)

Seeds == {"1", "2"}

InitSeed ==
    /\ random_state \in Seeds
    /\ pop_size \in PopSizes
    /\ learning_factor = <<1, 2>>
    /\ selection = <<1, 2>>
    /\ maximize = TRUE
    /\ grammar \in Grammars
    /\ InitState

SpecSeed == InitSeed /\ [][Next]_vars

----------------------------------------------------------------------------
(* Specification of a search over one discrete decision with bounds (0, 10), *)
(* whose default parameters are (5, 10)                                      *)

InitGauss ==
    /\ random_state = None
    /\ pop_size \in PopSizes
    /\ learning_factor \in LearningFactors
    /\ \E c \in Directions : selection = c[1] /\ maximize = c[2]
    /\ grammar \in FineGrammars
    /\ InitState

NextGauss ==
    \/ run_one_generation
    \/ sample_discrete
    \/ \E f \in [1..pop_size -> FitnessValues] : finish_generation(f)

SpecGauss == InitGauss /\ [][NextGauss]_vars

----------------------------------------------------------------------------
(* Specification of a search whose model was supplied from outside: the     *)
(* boolean handle maps to a 1-tuple, to a 3-tuple or to a value that is     *)
(* neither number, list nor tuple (an array)                                *)

LoadedParams ==
    {Tuple(<<<<1, 2>>>>),
     Tuple(<<<<1, 2>>, <<1, 1>>, <<2, 1>>>>),
     [kind |-> "array", items |-> <<<<1, 2>>>>]}

InitLoaded ==
    /\ random_state = None
    /\ pop_size \in PopSizes
    /\ learning_factor \in LearningFactors
    /\ \E c \in Directions : selection = c[1] /\ maximize = c[2]
    /\ grammar = G("boolean", 0, 0)
    /\ \E params \in LoadedParams : models = (0 :> (BooleanHandle :> params))
    /\ self_model = 0
    /\ samplers = <<>>
    /\ gen = 0
    /\ pc = "idle"
    /\ fns = <<>>
    /\ selected = <<>>
    /\ err = "none"
    /\ ops = 0
    /\ last = NoCall

NextLoaded ==
    \/ run_one_generation
    \/ sample_boolean
    \/ \E f \in [1..pop_size -> FitnessValues] : finish_generation(f)

SpecLoaded == InitLoaded /\ [][NextLoaded]_vars

----------------------------------------------------------------------------
(* Properties *)

\* _finish_generation has run and its locals are those of that call
PostFinish == fns # <<>>

SamplerIds == 1..Len(samplers)
ModelOf(i) == models[samplers[i].model]
DriverModel == models[self_model]

\* C1: every sampler of a generation, the first generation included, holds
\* the driver's current model object, so all samplers of a generation hold
\* one and the same dict (the fold base selected[0].model is that dict)
C1_SamplersShareDriverModel ==
    /\ pc = "sampling" => \A i \in SamplerIds : samplers[i].model = self_model
    /\ \A i, j \in SamplerIds : samplers[i].model = samplers[j].model

\* C2: with selection <= 0 or >= 1 and a non-empty population,
\* _finish_generation does not raise and folds between 1 and pop_size samplers
C2_NoCrashOutsideUnitInterval ==
    (PostFinish /\ (RLe(selection, R(0)) \/ RLe(R(1), selection)))
        => /\ err = "none"
           /\ pc = "idle"
           /\ Len(selected) \in 1..pop_size

\* rank of position i (0-based) among the scores, ties by population order
Rank(f, i) ==
    Cardinality({j \in 0..(Len(f) - 1) :
                    \/ f[j + 1] < f[i + 1]
                    \/ f[j + 1] = f[i + 1] /\ j < i})

SelectedSet == {selected[p] : p \in 1..Len(selected)}

\* C3: with k = floor(selection * n) in 1..n the selector returns exactly k
\* samplers in population order: the k of highest rank when maximizing (none
\* left out scores strictly higher), the k of lowest rank when minimizing;
\* [3,1,4,1,5] with selection 0.4, maximizing, gives positions 2 and 4
C3_EliteIsTopK ==
    PostFinish =>
        LET n == Len(fns)
            k == Floor(RMul(selection, R(n)))
            all == 0..(n - 1)
        IN  (1 <= k /\ k <= n) =>
              /\ err = "none"
              /\ Len(selected) = k
              /\ \A p \in 1..(Len(selected) - 1) : selected[p] < selected[p + 1]
              /\ maximize =>
                   /\ SelectedSet = {i \in all : Rank(fns, i) >= n - k}
                   /\ \A i \in SelectedSet, u \in all \ SelectedSet :
                          ~(fns[u + 1] > fns[i + 1])
              /\ ~maximize =>
                   /\ SelectedSet = {i \in all : Rank(fns, i) < k}
                   /\ \A i \in SelectedSet, u \in all \ SelectedSet :
                          ~(fns[u + 1] < fns[i + 1])
              /\ (fns = <<3, 1, 4, 1, 5>> /\ selection = <<2, 5>> /\ maximize)
                   => selected = <<2, 4>>

C3_Witness ==
    /\ fns = <<3, 1, 4, 1, 5>>
    /\ selection = <<2, 5>>
    /\ maximize
    /\ selected = <<2, 4>>
    /\ pc = "idle"

\* C4: when floor(selection * n) is 0 the whole population is selected, in
\* population order, whatever the direction
C4_ZeroFallbackSelectsAll ==
    (PostFinish /\ Floor(RMul(selection, R(Len(fns)))) = 0)
        => /\ err = "none"
           /\ selected = [i \in 1..Len(fns) |-> i - 1]

C4_Witness ==
    /\ pop_size = 4
    /\ selection = <<1, 10>>
    /\ pc = "idle"
    /\ selected = <<0, 1, 2, 3>>

InBounds(v) == RLe(R(grammar.min), v) /\ RLe(v, R(grammar.max))

GaussHandles == {DiscreteHandle, ContinuousHandle}

\* C5: the value a bounded draw returns is the one it appends to the log,
\* and it lies within [min, max], whatever the mean and spread of the model
C5_DrawWithinBounds ==
    /\ last.op \in {"discrete", "continuous"} =>
          /\ InBounds(last.ret)
          /\ LET log == samplers[Cur].updates[last.handle]
             IN  log[Len(log)] = last.ret
    /\ \A i \in SamplerIds :
          \A h \in (DOMAIN samplers[i].updates) \cap GaussHandles :
              \A k \in 1..Len(samplers[i].updates[h]) :
                  InBounds(samplers[i].updates[h][k])

\* a draw clamped at max under a model that an earlier generation has updated
C5_Witness ==
    /\ last.op = "discrete"
    /\ gen >= 1
    /\ ModelOf(Cur)[DiscreteHandle] # gauss_default(grammar.min, grammar.max)
    /\ RLt(R(grammar.max), last.g)
    /\ last.ret = R(grammar.max)

\* C6: the handles of a sampler's update log are handles of the model it
\* holds, and the driver's model never loses a handle
C6_HandlesNeverLost ==
    /\ [](\A i \in SamplerIds :
             DOMAIN samplers[i].updates \subseteq DOMAIN ModelOf(i))
    /\ [][DOMAIN DriverModel \subseteq DOMAIN models'[self_model']]_vars

\* a second generation folded onto a model that already had handles
C6_Witness ==
    /\ gen = 2
    /\ pc = "idle"
    /\ DOMAIN DriverModel # {}
    /\ \E i \in SamplerIds :
          /\ samplers[i].model # self_model
          /\ DOMAIN ModelOf(i) # {}
          /\ DOMAIN samplers[i].updates # {}

Shape(params) == <<params.kind, Len(params.items)>>

KindStable(m1, m2) ==
    \A h \in (DOMAIN m1) \cap (DOMAIN m2) : Shape(m1[h]) = Shape(m2[h])

\* C7: the kind of a handle's parameter never changes: sampling leaves every
\* existing entry as it is, and the model folded by _finish_generation (and
\* update_model of any model with any log) keeps the kind and length
C7_KindNeverChanges ==
    [][/\ KindStable(DriverModel, models'[self_model'])
       /\ (pc = "sampling" /\ pc' = "sampling") =>
             \A id \in DOMAIN models : \A h \in DOMAIN models[id] :
                 models'[id][h] = models[id][h]
       /\ (pc = "sampling" /\ pc' = "idle") =>
             \A i \in SamplerIds :
                 /\ KindStable(ModelOf(i), models'[self_model'])
                 /\ KindStable(ModelOf(i),
                               update_model(ModelOf(i), samplers[i].updates,
                                            learning_factor))]_vars

\* a bernoulli parameter that a fold has moved off its default
C7_Witness ==
    /\ pc = "idle"
    /\ BooleanHandle \in DOMAIN DriverModel
    /\ Shape(DriverModel[BooleanHandle]) = <<"tuple", 1>>
    /\ DriverModel[BooleanHandle] # Tuple(<<<<1, 2>>>>)

Alphas == {<<0, 1>>, <<1, 2>>, <<1, 1>>}

\* C8: update_model returns a model with the handles of its base, and every
\* handle without an entry in the log keeps its parameter, for every alpha
C8_UntouchedHandlesKept ==
    \A id \in DOMAIN models, j \in SamplerIds, a \in Alphas :
        LET m == models[id]
            u == samplers[j].updates
            r == update_model(m, u, a)
        IN  /\ DOMAIN r = DOMAIN m
            /\ \A h \in (DOMAIN m) \ (DOMAIN u) : r[h] = m[h]

\* an elite sampler whose log touches one handle of its model and not another
C8_Witness ==
    /\ pc = "idle"
    /\ \E p \in 1..Len(selected) :
          LET j == selected[p] + 1
          IN  /\ DOMAIN samplers[j].updates # {}
              /\ (DOMAIN ModelOf(j)) \ (DOMAIN samplers[j].updates) # {}

Occurrences(upd, x) == Cardinality({k \in 1..Len(upd) : upd[k] = x})

\* C9: with alpha > 0 update_model adds alpha to a scalar weight per recorded
\* vote and alpha to a categorical weight per recorded occurrence of its
\* index, leaving the other indices as they are, so no weight decreases and
\* every weight of every model is >= 1
C9_WeightsOnlyGrow ==
    /\ \A id \in DOMAIN models : \A h \in DOMAIN models[id] :
          models[id][h].kind \in {"num", "list"} =>
              \A k \in 1..Len(models[id][h].items) :
                  RLe(R(1), models[id][h].items[k])
    /\ RLt(R(0), learning_factor) =>
         \A id \in DOMAIN models, j \in SamplerIds :
           LET m == models[id]
               u == samplers[j].updates
               r == update_model(m, u, learning_factor)
           IN  \A h \in DOMAIN m :
                 m[h].kind \in {"num", "list"} =>
                   \A k \in 1..Len(m[h].items) :
                     LET n == IF h \notin DOMAIN u THEN 0
                              ELSE IF m[h].kind = "num" THEN Len(u[h])
                              ELSE Occurrences(u[h], k - 1)
                     IN  /\ r[h].items[k]
                              = RAdd(m[h].items[k], RMul(R(n), learning_factor))
                         /\ RLe(m[h].items[k], r[h].items[k])

\* a categorical weight raised twice by one fold, the other index untouched
C9_Witness ==
    /\ pc = "idle"
    /\ CategoricalHandle \in DOMAIN DriverModel
    /\ \E k \in 1..2 :
          /\ DriverModel[CategoricalHandle].items[k] = R(2)
          /\ DriverModel[CategoricalHandle].items[3 - k] = R(1)

\* the integer obtained from x by dropping its fractional part
TruncTowardZero(x) ==
    CHOOSE t \in -(Abs(x[1]) + 1)..(Abs(x[1]) + 1) :
        /\ t * x[1] >= 0
        /\ RLe(R(Abs(t)), <<Abs(x[1]), x[2]>>)
        /\ RLt(<<Abs(x[1]), x[2]>>, R(Abs(t) + 1))

\* C10 as stated: the discrete draw rounds the gaussian sample to the nearest
\* integer before clamping, the continuous draw clamps without rounding
C10_DiscreteRoundsToNearest ==
    /\ last.op = "discrete" =>
          last.ret = clamp(R(Nearest(last.g)), R(grammar.min), R(grammar.max))
    /\ last.op = "continuous" =>
          last.ret = clamp(last.g, R(grammar.min), R(grammar.max))

\* C10 amended: the discrete draw truncates the gaussian sample toward zero
\* before clamping, the continuous draw clamps without rounding
C10_DiscreteTruncatesTowardZero ==
    /\ last.op = "discrete" =>
          last.ret = clamp(R(TruncTowardZero(last.g)), R(grammar.min), R(grammar.max))
    /\ last.op = "continuous" =>
          last.ret = clamp(last.g, R(grammar.min), R(grammar.max))

\* a negative, fractional sample within the bounds, truncated up to 0
C10_Witness ==
    /\ last.op = "discrete"
    /\ last.g[2] # 1
    /\ RLt(last.g, R(0))
    /\ InBounds(last.g)
    /\ last.ret = R(0)

\* the values the next sampling call of the sampler being built can return
draw_outcomes ==
    LET s == samplers[Cur]
        mm == models[s.model]
        b == <<grammar.min, grammar.max>>
    IN  CASE grammar.op = "choice" ->
               LET m == model_after_weights(mm, ChoiceOptions)
                   weights == [i \in 1..Len(ChoiceOptions) |->
                                   m[ChoiceOptions[i]].items[1]]
               IN  {ChoiceOptions[i + 1] :
                        i \in rand_stream(s.seed,
                                 {j \in 0..(Len(ChoiceOptions) - 1) :
                                      choices_possible(weights, j)})}
          [] grammar.op = "categorical" ->
               LET default == List([i \in 1..Len(CategoricalOptions) |-> R(1)])
                   weights == get_model_params(mm, CategoricalHandle, default)
               IN  {CategoricalOptions[i + 1] :
                        i \in rand_stream(s.seed,
                                 {j \in 0..(Len(CategoricalOptions) - 1) :
                                      choices_possible(weights.items, j)})}
          [] grammar.op = "boolean" ->
               LET p == get_model_params(mm, BooleanHandle,
                                         Tuple(<<<<1, 2>>>>)).items[1]
               IN  rand_stream(s.seed,
                               {v \in BOOLEAN : boolean_value_possible(p, v)})
          [] grammar.op = "discrete" ->
               LET params == get_model_params(mm, DiscreteHandle,
                                              gauss_default(b[1], b[2]))
               IN  {discrete_value(gauss(params.items[1], params.items[2], z),
                                   b[1], b[2]) :
                        z \in rand_stream(s.seed, Deviates)}
          [] grammar.op = "continuous" ->
               LET params == get_model_params(mm, ContinuousHandle,
                                              gauss_default(b[1], b[2]))
               IN  {continuous_value(gauss(params.items[1], params.items[2], z),
                                     b[1], b[2]) :
                        z \in rand_stream(s.seed, Deviates)}
          [] OTHER -> {}

\* C11: a search configured with a seed gives that seed to every sampler it
\* creates, so the outcome of each sampling call is determined by the seed
\* and the model: one value, the same in every run
C11_SeedDeterminesOutcomes ==
    (random_state # None /\ pc = "sampling" /\ Cur >= 1)
        => /\ samplers[Cur].seed = random_state
           /\ Cardinality(draw_outcomes) = 1

\* the samplers _finish_generation selected, in population order
Elite == {selected[p] + 1 : p \in 1..Len(selected)}

\* C14: after _finish_generation returns, in every generation, the first
\* included, the driver's next model has every handle that occurs in the
\* log of an elite sampler, and is the fold of the elite logs in order
C14_EliteHandlesInNextModel ==
    (PostFinish /\ pc = "idle")
        => /\ \A i \in Elite : DOMAIN samplers[i].updates \subseteq DOMAIN DriverModel
           /\ DriverModel = fold(ModelOf(selected[1] + 1), selected, samplers,
                                 learning_factor)

\* C15: _indices maps a list of n scores to a permutation of 0..n-1 in which
\* position i ranks below position j exactly when its score is smaller, or
\* the scores are equal and i comes first in the population
C15_IndicesAreStableRanks ==
    PostFinish =>
        LET n == Len(fns)
            rank == indices(fns)
            all == 0..(n - 1)
        IN  /\ Len(rank) = n
            /\ {rank[i + 1] : i \in all} = all
            /\ \A i, j \in all :
                   (rank[i + 1] < rank[j + 1])
                       <=> \/ fns[i + 1] < fns[j + 1]
                           \/ fns[i + 1] = fns[j + 1] /\ i < j

C15_Witness ==
    /\ fns = <<3, 1, 4, 1, 5>>
    /\ indices(fns) = <<2, 0, 3, 1, 4>>

\* C19: with alpha in (0, 1] and a handle always drawn with the same bounds,
\* in every model the search holds the gaussian mean of the handle lies
\* within [min, max] and its spread is not negative
C19_GaussianMeanWithinBounds ==
    \A id \in DOMAIN models :
        \A h \in (DOMAIN models[id]) \cap GaussHandles :
            /\ InBounds(models[id][h].items[1])
            /\ RLe(R(0), models[id][h].items[2])

\* a fold with alpha = 1 has moved the mean onto the upper bound
C19_Witness ==
    /\ gen >= 1
    /\ pc = "idle"
    /\ learning_factor = R(1)
    /\ DiscreteHandle \in DOMAIN DriverModel
    /\ DriverModel[DiscreteHandle] = Tuple(<<R(grammar.max), R(0)>>)

\* the log `new` is the log `old` with one outcome appended to one sequence
AppendsOne(old, new) ==
    \E h \in DOMAIN new :
        LET before == IF h \in DOMAIN old THEN old[h] ELSE <<>>
        IN  /\ DOMAIN new = (DOMAIN old) \cup {h}
            /\ \A k \in (DOMAIN old) \ {h} : new[k] = old[k]
            /\ Len(new[h]) = Len(before) + 1
            /\ SubSeq(new[h], 1, Len(before)) = before

\* C17: a sampling call appends one outcome to the end of one handle's
\* sequence in the log of the sampler it is called on; it leaves the earlier
\* outcomes, every other sampler and every parameter already in a model as
\* they were (it may add a default for a new handle); the fold of
\* _finish_generation leaves every log unchanged
C17_DrawAppendsOneOutcome ==
    [][/\ (ops' = ops + 1) =>
             /\ Len(samplers') = Len(samplers)
             /\ AppendsOne(samplers[Cur].updates, samplers'[Cur].updates)
             /\ samplers'[Cur].model = samplers[Cur].model
             /\ \A i \in SamplerIds \ {Cur} : samplers'[i] = samplers[i]
             /\ \A id \in DOMAIN models :
                    /\ id \in DOMAIN models'
                    /\ \A k \in DOMAIN models[id] :
                           /\ k \in DOMAIN models'[id]
                           /\ models'[id][k] = models[id][k]
       /\ (pc = "sampling" /\ pc' # "sampling") => samplers' = samplers
      ]_vars

\* a second outcome appended after the first, in the second sampler's log
C17_Witness ==
    /\ Cur = 2
    /\ ops = 2
    /\ \E h \in DOMAIN samplers[2].updates : Len(samplers[2].updates[h]) = 2

InUnit(q) == RLe(R(0), q) /\ RLe(q, R(1))

\* C16: p starts at the default 1/2; a fold whose base has p in [0, 1] and
\* whose elite logs hold at most one outcome for the handle gives p in
\* [0, 1], and a fold takes p out of [0, 1] only when an elite log holds two
\* or more true outcomes for the handle
C16_BernoulliStaysInUnitInterval ==
    /\ [](gen = 0 =>
             \A id \in DOMAIN models :
                 BooleanHandle \in DOMAIN models[id]
                     => models[id][BooleanHandle] = Tuple(<<<<1, 2>>>>))
    /\ [][(pc = "sampling" /\ pc' = "idle") =>
             LET h == BooleanHandle
                 base == ModelOf(selected'[1] + 1)
                 new == models'[self_model']
                 elite == {selected'[k] + 1 : k \in 1..Len(selected')}
                 logs == {samplers[i].updates[h] :
                              i \in {j \in elite : h \in DOMAIN samplers[j].updates}}
             IN  (h \in DOMAIN base /\ InUnit(base[h].items[1])) =>
                     /\ (\A upd \in logs : Len(upd) <= 1) => InUnit(new[h].items[1])
                     /\ ~InUnit(new[h].items[1])
                            => \E upd \in logs : Occurrences(upd, TRUE) >= 2
          ]_vars

\* two generations, each folding one true outcome with alpha = 1/2
C16_Witness ==
    /\ gen = 2
    /\ learning_factor = <<1, 2>>
    /\ BooleanHandle \in DOMAIN DriverModel
    /\ DriverModel[BooleanHandle] = Tuple(<<<<7, 8>>>>)

Blend(old, new, alpha) == RAdd(RMul(old, RSub(R(1), alpha)), RMul(new, alpha))

\* m is the arithmetic mean of upd
IsMeanOf(m, upd) == RMul(m, R(Len(upd))) = RSum(upd)

\* the mean of the squared deviations of upd from m
Variance(upd, m) ==
    RDivInt(RSum([k \in 1..Len(upd) |-> RMul(RSub(upd[k], m), RSub(upd[k], m))]),
            Len(upd))

\* s is the standard deviation of upd with divisor n: exact for up to two
\* outcomes (where it is rational), from below otherwise
IsStdOf(s, upd) ==
    LET m == RDivInt(RSum(upd), Len(upd))
    IN  /\ RLe(R(0), s)
        /\ RLe(RMul(s, s), Variance(upd, m))
        /\ Len(upd) <= 2 => RMul(s, s) = Variance(upd, m)

\* C13: for a gaussian handle with recorded outcomes update_model gives
\* mean' = mean (1 - alpha) + m alpha and spread' = spread (1 - alpha) + s alpha
\* with m the arithmetic mean and s the standard deviation (divisor n) of the
\* outcomes; (5, 10) with outcomes [4, 6] and alpha 1/2 gives (5, 11/2); a
\* fold of one elite sampler stores exactly that in the driver's model
C13_GaussianBlend ==
    /\ [](\A i \in SamplerIds :
             \A h \in (DOMAIN samplers[i].updates) \cap (DOMAIN ModelOf(i))
                        \cap GaussHandles :
                 LET old == ModelOf(i)[h]
                     upd == samplers[i].updates[h]
                     new == update_model(ModelOf(i), samplers[i].updates,
                                         learning_factor)[h]
                     m == mean(upd)
                     sd == std(upd)
                 IN  /\ IsMeanOf(m, upd)
                     /\ IsStdOf(sd, upd)
                     /\ new = Tuple(<<Blend(old.items[1], m, learning_factor),
                                      Blend(old.items[2], sd, learning_factor)>>)
                     /\ (old = Tuple(<<R(5), R(10)>>) /\ upd = <<R(4), R(6)>>
                            /\ learning_factor = <<1, 2>>)
                          => new = Tuple(<<R(5), <<11, 2>>>>))
    /\ [][(pc = "sampling" /\ pc' = "idle" /\ Len(selected') = 1) =>
             LET i == selected'[1] + 1
                 h == DiscreteHandle
             IN  (h \in (DOMAIN samplers[i].updates) \cap (DOMAIN ModelOf(i))) =>
                     models'[self_model'][h] =
                         Tuple(<<Blend(ModelOf(i)[h].items[1],
                                       mean(samplers[i].updates[h]), learning_factor),
                                 Blend(ModelOf(i)[h].items[2],
                                       std(samplers[i].updates[h]), learning_factor)>>)
          ]_vars

\* the fold of the log [4, 6] onto the default (5, 10) with alpha = 1/2
C13_Witness ==
    /\ pc = "idle"
    /\ gen = 1
    /\ learning_factor = <<1, 2>>
    /\ Len(selected) = 1
    /\ DiscreteHandle \in DOMAIN DriverModel
    /\ DiscreteHandle \in DOMAIN ModelOf(selected[1] + 1)
    /\ ModelOf(selected[1] + 1)[DiscreteHandle] = Tuple(<<R(5), R(10)>>)
    /\ samplers[selected[1] + 1].updates = (DiscreteHandle :> <<R(4), R(6)>>)
    /\ DriverModel[DiscreteHandle] = Tuple(<<R(5), <<11, 2>>>>)

\* a parameter of one of the four shapes update_model knows
Recognized(params) ==
    \/ params.kind = "num"
    \/ params.kind = "list"
    \/ params.kind = "tuple" /\ Len(params.items) = 1
    \/ params.kind = "tuple" /\ Len(params.items) = 2

\* the log has an entry for a handle that the model maps to an unknown shape
TouchesUnrecognized(model, updates) ==
    \E h \in (DOMAIN model) \cap (DOMAIN updates) : ~Recognized(model[h])

\* C12: update_model raises exactly when a handle with an entry in the log
\* maps to a parameter that is no number, list, 2-tuple or 1-tuple; when an
\* elite log does so _finish_generation ends with ValueError, and a step that
\* raises leaves the driver's model, and every dict, as it was
C12_UnrecognizedShapeIsFatal ==
    /\ [](\A i \in SamplerIds :
             update_model_raises(ModelOf(i), samplers[i].updates)
                 <=> TouchesUnrecognized(ModelOf(i), samplers[i].updates))
    /\ [](PostFinish =>
             ((\E i \in Elite : TouchesUnrecognized(ModelOf(i), samplers[i].updates))
                 <=> (err = "ValueError" /\ pc = "crashed")))
    /\ [][(pc = "sampling" /\ err' = "ValueError") =>
             /\ models' = models
             /\ self_model' = self_model
             /\ gen' = gen
          ]_vars

\* the fold has raised on a 3-tuple that an elite sampler drew from
C12_Witness ==
    /\ err = "ValueError"
    /\ pc = "crashed"
    /\ gen = 0
    /\ DriverModel[BooleanHandle] = Tuple(<<<<1, 2>>, <<1, 1>>, <<2, 1>>>>)
    /\ \E i \in Elite : BooleanHandle \in DOMAIN samplers[i].updates

====
